---- MODULE Spec2Model ----
(***************************************************************************)
(* A model of the teacher-facing quiz client: the mobile join screen       *)
(* (JoinGameScreenMobile.js), the quiz editor (CreateGameMenu.js) and the  *)
(* teacher dashboard (TeacherDashboard.js).                                *)
(*                                                                         *)
(* Text is a sequence of one-character strings, so that trim, split and    *)
(* the digit filter are computed character by character as the code does. *)
(* Each screen is a separate React component with its own state; each has *)
(* its own specification, which leaves the other screens' state alone.    *)
(***************************************************************************)
EXTENDS Integers, Sequences, FiniteSets

VARIABLES
    \* ---- JoinGameScreenMobile ----
    gameCode,       \* useState("")  : the game code shown in the TextInput
    lastInput,      \* history: the text handed to the last handleInputChange
    console,        \* the last console line written by handleJoinGame
    joinCall,       \* history: how and with which code handleJoinGame last ran
    user,           \* useState(null) : the signed-in user, "null" for null
    goldBalance,    \* useState(0)
    authEvents,     \* the users the auth listener is still to be called with
    logouts,        \* the Log Out presses awaiting signOut / to continue
    \* ---- CreateGameMenu: the question editor ----
    questions,              \* useState([]) : the question list
    isCreateQuestionModalVisible,
    editingQuestionIndex,   \* 0 for null (a new question), else the index
    currentQuestion,        \* the question in the question modal
    confirmModal,           \* the alert / cancel dialog
    \* ---- CreateGameMenu: the game ----
    gameTitle,              \* useState(initialTitle)
    tags,                   \* useState('') : the comma-separated tags field
    isLoading,              \* the spinner shown while loadGameData runs
    isEditing,              \* set by loadGameData when the game exists
    gameId,                 \* route.params.gameId, "none" for a new game
    authUser,               \* auth.currentUser's uid, "null" when signed out
    titleEditModal,         \* the title edit modal
    load,                   \* "pending" while loadGameData awaits getDoc
    saves,                  \* the addDoc / updateDoc calls saveGame awaits
    saveCount,              \* the number of saves started
    nav,                    \* the screen on top and its gameId parameter
    games,                  \* the Firestore collection 'games'
    \* ---- TeacherDashboard ----
    userToken,              \* AsyncStorage 'userToken', "null" when unset
    fetch,                  \* where fetchData stands, and what it holds
    myGames,                \* useState([]) : the library list
    publicGames,            \* useState([]) : the Discover list
    currentTab,             \* useState('home')
    dashConfirmModal,       \* the dashboard's confirmModal
    deletingIds,            \* useState(new Set())
    ops,                    \* the delete / publish / copy calls awaited
    opCount,                \* the number of such calls started
    issued,                 \* the number of ids addDoc gave to copies
    dashNav,                \* the screen the dashboard's navigator shows
    searchQuery,            \* useState('') : the search box
    filter                  \* useState('all') : the library filter

authVars == <<user, goldBalance, authEvents, logouts>>

joinVars == <<gameCode, lastInput, console, joinCall, authVars>>

questionVars == <<questions, isCreateQuestionModalVisible,
                  editingQuestionIndex, currentQuestion>>

gameVars == <<gameTitle, tags, isLoading, isEditing, gameId, authUser,
              titleEditModal, load, saves, saveCount, nav, games>>

editorVars == <<questionVars, confirmModal, gameVars>>

dashVars == <<userToken, fetch, myGames, publicGames, currentTab,
              dashConfirmModal, deletingIds, ops, opCount, issued, dashNav,
              searchQuery, filter>>

vars == <<joinVars, editorVars, dashVars>>

Min(a, b) == IF a < b THEN a ELSE b


(***************************************************************************)
(* CreateGameMenu.js: the question editor                                  *)
(*                                                                         *)
(* A question is [type, question, answers, correctAnswers]; its imageUrl   *)
(* and uploadImage, which writes only imageUrl, are left out.              *)
(***************************************************************************)

IsSpace(c) == c = " "

RECURSIVE TrimStart(_)
TrimStart(s) ==
    IF s # <<>> /\ IsSpace(Head(s)) THEN TrimStart(Tail(s)) ELSE s

RECURSIVE TrimEnd(_)
TrimEnd(s) ==
    IF s # <<>> /\ IsSpace(s[Len(s)])
        THEN TrimEnd(SubSeq(s, 1, Len(s) - 1))
        ELSE s

\* String.prototype.trim
Trim(s) == TrimEnd(TrimStart(s))

\* correctAnswers.filter(Boolean).length
CorrectCount(q) ==
    Cardinality({i \in 1..Len(q.correctAnswers) : q.correctAnswers[i]})

TrueText == <<"T", "r", "u", "e">>
FalseText == <<"F", "a", "l", "s", "e">>

\* The question addQuestion and useState put in the modal.
BlankQuestion ==
    [type |-> "multipleChoice",
     question |-> <<>>,
     answers |-> <<<<>>, <<>>, <<>>, <<>>>>,
     correctAnswers |-> <<FALSE, FALSE, FALSE, FALSE>>]

\* What the OK of an alert runs after closing it: nothing, navigation.goBack()
\* or navigation.navigate('HostGameMenu', { gameId: id }).
NoNav == [kind |-> "none", id |-> "none"]
GoBack == [kind |-> "goBack", id |-> "none"]
HostGame(id) == [kind |-> "host", id |-> id]

\* A closed modal's title and handlers are never read, and every opening
\* (showAlert, handleCancel) replaces them all: closed modals are one value.
ClosedModal ==
    [isOpen |-> FALSE, title |-> "", showSaveOption |-> FALSE, onOk |-> NoNav]

\* showAlert(title, message, onOk)
showAlert(title, onOk) ==
    [isOpen |-> TRUE, title |-> title, showSaveOption |-> FALSE, onOk |-> onOk]

\* The editor is on top and renders its screen, not the spinner.
EditorShown == nav.screen = "editor" /\ ~isLoading

\* The main screen's buttons are reachable when no modal covers them.
MainScreenActive ==
    /\ EditorShown
    /\ ~isCreateQuestionModalVisible
    /\ ~titleEditModal.isOpen
    /\ ~confirmModal.isOpen

\* The question modal's controls are reachable under no alert.
QuestionModalActive ==
    /\ EditorShown
    /\ isCreateQuestionModalVisible
    /\ ~confirmModal.isOpen

addQuestion ==
    /\ MainScreenActive
    /\ editingQuestionIndex' = 0
    /\ currentQuestion' = BlankQuestion
    /\ isCreateQuestionModalVisible' = TRUE
    /\ UNCHANGED <<questions, confirmModal, joinVars, dashVars, gameVars>>

\* The answers a press of a question type radio button sets.
TypeAnswers(type) ==
    IF type = "trueFalse"
        THEN [answers |-> <<TrueText, FalseText>>,
              correctAnswers |-> <<FALSE, FALSE>>]
        ELSE [answers |-> <<<<>>, <<>>, <<>>, <<>>>>,
              correctAnswers |-> <<FALSE, FALSE, FALSE, FALSE>>]

\* onPress of a question type radio button
selectType(type) ==
    /\ QuestionModalActive
    /\ currentQuestion' =
          [currentQuestion EXCEPT
              !.type = type,
              !.answers = TypeAnswers(type).answers,
              !.correctAnswers = TypeAnswers(type).correctAnswers]
    /\ UNCHANGED <<questions, isCreateQuestionModalVisible,
                   editingQuestionIndex, confirmModal, joinVars, dashVars, gameVars>>

\* onChangeText of the question text field
setQuestionText(t) ==
    /\ QuestionModalActive
    /\ currentQuestion' = [currentQuestion EXCEPT !.question = t]
    /\ UNCHANGED <<questions, isCreateQuestionModalVisible,
                   editingQuestionIndex, confirmModal, joinVars, dashVars, gameVars>>

\* The rows of the multiple-choice form: answers.slice(0, 4)
ChoiceRows == 1..Min(4, Len(currentQuestion.answers))

\* onChangeText of a multiple-choice answer field
setAnswerText(idx, txt) ==
    /\ QuestionModalActive
    /\ currentQuestion.type # "trueFalse"
    /\ idx \in ChoiceRows
    /\ currentQuestion' =
          [currentQuestion EXCEPT
              !.answers = [i \in 1..Len(@) |-> IF i = idx THEN txt ELSE @[i]]]
    /\ UNCHANGED <<questions, isCreateQuestionModalVisible,
                   editingQuestionIndex, confirmModal, joinVars, dashVars, gameVars>>

\* p.correctAnswers.map((c, i) => i === idx ? !c : c)
ToggleAny(correct, idx) ==
    [i \in 1..Len(correct) |-> IF i = idx THEN ~correct[i] ELSE correct[i]]

\* Mutant: the true/false toggle leaves the other flag as it is.
ToggleOneKeepsOther(correct, idx) ==
    [j \in 1..Len(correct) |-> IF j = idx THEN ~correct[j] ELSE correct[j]]

\* p.correctAnswers.map((c, j) => j === i ? !c : false)
ToggleOne(correct, idx) ==
    [j \in 1..Len(correct) |-> IF j = idx THEN ~correct[j] ELSE FALSE]

\* onPress of a multiple-choice correct toggle
toggleChoice(idx) ==
    /\ QuestionModalActive
    /\ currentQuestion.type # "trueFalse"
    /\ idx \in ChoiceRows
    /\ currentQuestion' =
          [currentQuestion EXCEPT !.correctAnswers = ToggleAny(@, idx)]
    /\ UNCHANGED <<questions, isCreateQuestionModalVisible,
                   editingQuestionIndex, confirmModal, joinVars, dashVars, gameVars>>

\* onPress of a True/False correct toggle
toggleTrueFalse(idx) ==
    /\ QuestionModalActive
    /\ currentQuestion.type = "trueFalse"
    /\ idx \in 1..Len(currentQuestion.answers)
    /\ currentQuestion' =
          [currentQuestion EXCEPT !.correctAnswers = ToggleOne(@, idx)]
    /\ UNCHANGED <<questions, isCreateQuestionModalVisible,
                   editingQuestionIndex, confirmModal, joinVars, dashVars, gameVars>>

\* Mutant: a question must have exactly one correct answer.
QuestionProblemSingleAnswer(q) ==
    IF Trim(q.question) = <<>> THEN "Missing Question"
    ELSE IF CorrectCount(q) # 1 THEN "No Correct Answer"
    ELSE ""

\* The alert saveQuestion's validation raises, "" when the question passes.
QuestionProblem(q) ==
    IF Trim(q.question) = <<>> THEN "Missing Question"
    ELSE IF CorrectCount(q) = 0 THEN "No Correct Answer"
    ELSE ""

\* prev.filter((_, i) => i !== index)
RemoveAt(list, index) ==
    [i \in 1..(Len(list) - 1) |-> IF i < index THEN list[i] ELSE list[i + 1]]

\* Mutant: an edited question is taken out and put at the end.
SavedListMovesToEnd(list, index, q) ==
    IF index # 0 THEN Append(RemoveAt(list, index), q) ELSE Append(list, q)

\* The list saveQuestion sets: the question replaces the one at the editing
\* index, or is appended when the index is null.
SavedList(list, index, q) ==
    IF index # 0 THEN [list EXCEPT ![index] = q] ELSE Append(list, q)

saveQuestion ==
    /\ QuestionModalActive
    /\ IF QuestionProblem(currentQuestion) # ""
        THEN /\ confirmModal' = showAlert(QuestionProblem(currentQuestion), NoNav)
             /\ UNCHANGED <<questions, isCreateQuestionModalVisible>>
        ELSE /\ questions' =
                  SavedList(questions, editingQuestionIndex, currentQuestion)
             /\ isCreateQuestionModalVisible' = FALSE
             /\ UNCHANGED confirmModal
    /\ UNCHANGED <<editingQuestionIndex, currentQuestion, joinVars, dashVars, gameVars>>

\* Cancel in the question modal
cancelQuestion ==
    /\ QuestionModalActive
    /\ isCreateQuestionModalVisible' = FALSE
    /\ UNCHANGED <<questions, editingQuestionIndex, currentQuestion,
                   confirmModal, joinVars, dashVars, gameVars>>

editQuestion(index) ==
    /\ MainScreenActive
    /\ index \in 1..Len(questions)
    /\ editingQuestionIndex' = index
    /\ currentQuestion' = questions[index]
    /\ isCreateQuestionModalVisible' = TRUE
    /\ UNCHANGED <<questions, confirmModal, joinVars, dashVars, gameVars>>

deleteQuestion(index) ==
    /\ MainScreenActive
    /\ index \in 1..Len(questions)
    /\ questions' = RemoveAt(questions, index)
    /\ UNCHANGED <<isCreateQuestionModalVisible, editingQuestionIndex,
                   currentQuestion, confirmModal, joinVars, dashVars, gameVars>>

(***************************************************************************)
(* CreateGameMenu.js: title, tags, loading and saving the game             *)
(***************************************************************************)

\* The length of s up to its first comma.
RECURSIVE UpToComma(_)
UpToComma(s) ==
    IF s = <<>> \/ Head(s) = "," THEN 0 ELSE 1 + UpToComma(Tail(s))

\* s.split(',')
RECURSIVE SplitCommas(_)
SplitCommas(s) ==
    LET n == UpToComma(s) IN
    IF n = Len(s)
        THEN <<s>>
        ELSE <<SubSeq(s, 1, n)>> \o SplitCommas(SubSeq(s, n + 2, Len(s)))

\* list.map((t) => t.trim())
TrimAll(list) == [i \in 1..Len(list) |-> Trim(list[i])]

\* Mutant: the tags are split and trimmed, the empty ones kept.
parseTagsKeepEmpty(text) == TrimAll(SplitCommas(text))

\* tags.split(',').map((t) => t.trim()).filter((t) => t.length > 0)
parseTags(text) == SelectSeq(TrimAll(SplitCommas(text)), LAMBDA t : Len(t) > 0)

\* data.tags.join(', ')
RECURSIVE JoinTags(_)
JoinTags(list) ==
    IF list = <<>> THEN <<>>
    ELSE IF Len(list) = 1 THEN list[1]
    ELSE list[1] \o <<",", " ">> \o JoinTags(Tail(list))

\* No document under an id.
NoDoc == [exists |-> FALSE]

\* Mutant: numQuestions counts one question too many.
GameDataOffByOne ==
    [exists |-> TRUE,
     title |-> gameTitle,
     tags |-> parseTags(tags),
     questions |-> questions,
     numQuestions |-> Len(questions) + 1,
     creatorId |-> authUser]

\* const gameData = { title, tags, questions, numQuestions, creatorId, updatedAt }
\* (updatedAt, a timestamp, is left out)
GameData ==
    [exists |-> TRUE,
     title |-> gameTitle,
     tags |-> parseTags(tags),
     questions |-> questions,
     numQuestions |-> Len(questions),
     creatorId |-> authUser]

\* Mutant: saveGame checks the title only.
SaveProblemTitleOnly ==
    IF Trim(gameTitle) = <<>> THEN "Missing Title" ELSE ""

\* The alert saveGame's validation raises, "" when the game passes.
SaveProblem ==
    IF Trim(gameTitle) = <<>> THEN "Missing Title"
    ELSE IF Len(questions) = 0 THEN "No Questions"
    ELSE ""

\* const isSaveValid = gameTitle.trim().length > 0 && questions.length > 0
isSaveValid == Len(Trim(gameTitle)) > 0 /\ Len(questions) > 0

\* The ids addDoc can give a new document.
NewIds == {"n1", "n2", "n3"}

\* The id addDoc gives: one no document has.
FreshId == CHOOSE id \in NewIds : ~games[id].exists

\* saveGame(shouldHost, onSuccess): the validation, then the call it awaits.
\* auth.currentUser is read inside the try: with nobody signed in, user.uid
\* throws and the catch raises 'Save Failed'.
saveGame(shouldHost, onSuccess) ==
    /\ IF SaveProblem # ""
        THEN /\ confirmModal' = showAlert(SaveProblem, NoNav)
             /\ UNCHANGED <<saves, saveCount>>
        ELSE IF authUser = "null"
        THEN /\ confirmModal' = showAlert("Save Failed", NoNav)
             /\ UNCHANGED <<saves, saveCount>>
        ELSE /\ saves' = saves \cup
                  {[n |-> saveCount + 1,
                    op |-> IF isEditing THEN "updateDoc" ELSE "addDoc",
                    id |-> IF isEditing THEN gameId ELSE "none",
                    data |-> GameData,
                    shouldHost |-> shouldHost,
                    onSuccess |-> onSuccess]}
             /\ saveCount' = saveCount + 1
             /\ UNCHANGED confirmModal
    /\ UNCHANGED <<questionVars, joinVars, dashVars, gameTitle, tags, isLoading,
                   isEditing, gameId, authUser, titleEditModal, load, nav,
                   games>>

\* Save & Exit in the bottom bar: disabled={!isSaveValid}
saveAndExit ==
    /\ MainScreenActive
    /\ isSaveValid
    /\ saveGame(FALSE, GoBack)

\* Save & Host in the bottom bar
saveAndHost ==
    /\ MainScreenActive
    /\ saveGame(TRUE, NoNav)

\* The fields updateDoc writes, the others kept.
Merged(old, data) == [old EXCEPT !.title = data.title,
                                 !.tags = data.tags,
                                 !.questions = data.questions,
                                 !.numQuestions = data.numQuestions,
                                 !.creatorId = data.creatorId]

\* A new document holds the fields of gameData only.
Created(data) ==
    [exists |-> TRUE, title |-> data.title, tags |-> data.tags,
     questions |-> data.questions, numQuestions |-> data.numQuestions,
     creatorId |-> data.creatorId]

\* The editor is still mounted: goBack unmounts it, navigate covers it.
EditorMountedNow == nav.screen # "dashboard"

\* The awaited updateDoc / addDoc resolves (ok) or rejects, and saveGame goes
\* on: the success alert with the navigation behind OK, or 'Save Failed'.
\* updateDoc rejects when the document does not exist.
saveSettled(s, ok) ==
    /\ s \in saves
    /\ saves' = saves \ {s}
    /\ LET done == ok /\ (s.op = "updateDoc" => games[s.id].exists)
           savedId == IF s.op = "updateDoc" THEN s.id ELSE FreshId
       IN  /\ (s.op = "addDoc" /\ ok) => \E id \in NewIds : ~games[id].exists
           /\ games' = IF ~done THEN games
                       ELSE IF s.op = "updateDoc"
                         THEN [games EXCEPT ![s.id] = Merged(@, s.data)]
                         ELSE [games EXCEPT ![savedId] = Created(s.data)]
           /\ confirmModal' =
                IF ~EditorMountedNow THEN confirmModal
                ELSE IF ~done THEN showAlert("Save Failed", NoNav)
                ELSE showAlert("Success",
                               IF s.shouldHost THEN HostGame(savedId)
                                               ELSE s.onSuccess)
    /\ UNCHANGED <<questionVars, joinVars, dashVars, gameTitle, tags, isLoading,
                   isEditing, gameId, authUser, titleEditModal, load,
                   saveCount, nav>>

\* Mutant: the OK of every alert that does not host goes back.
NavigateBackByDefault(to) ==
    IF to.kind = "host" THEN [screen |-> "host", gameId |-> to.id]
    ELSE [screen |-> "dashboard", gameId |-> "none"]

\* navigation.goBack() / navigation.navigate('HostGameMenu', { gameId })
Navigate(to) ==
    IF to.kind = "goBack" THEN [screen |-> "dashboard", gameId |-> "none"]
    ELSE IF to.kind = "host" THEN [screen |-> "host", gameId |-> to.id]
    ELSE nav

\* OK of an alert: onConfirm closes the modal and runs onOk
pressOk ==
    /\ EditorShown
    /\ confirmModal.isOpen
    /\ ~confirmModal.showSaveOption
    /\ confirmModal' = ClosedModal
    /\ nav' = Navigate(confirmModal.onOk)
    /\ UNCHANGED <<questionVars, joinVars, dashVars, gameTitle, tags, isLoading,
                   isEditing, gameId, authUser, titleEditModal, load, saves,
                   saveCount, games>>

\* onRequestClose of the alert / cancel dialog
requestClose ==
    /\ EditorShown
    /\ confirmModal.isOpen
    /\ confirmModal' = ClosedModal
    /\ UNCHANGED <<questionVars, joinVars, dashVars, gameVars>>

\* Cancel in the bottom bar
handleCancel ==
    /\ MainScreenActive
    /\ confirmModal' = [isOpen |-> TRUE, title |-> "Cancel Editing?",
                        showSaveOption |-> TRUE, onOk |-> GoBack]
    /\ UNCHANGED <<questionVars, joinVars, dashVars, gameVars>>

CancelDialogShown ==
    EditorShown /\ confirmModal.isOpen /\ confirmModal.showSaveOption

\* Discard Changes: onConfirm
pressDiscard ==
    /\ CancelDialogShown
    /\ confirmModal' = ClosedModal
    /\ nav' = Navigate(GoBack)
    /\ UNCHANGED <<questionVars, joinVars, dashVars, gameTitle, tags, isLoading,
                   isEditing, gameId, authUser, titleEditModal, load, saves,
                   saveCount, games>>

\* Resume Editing: onCancel
pressResume ==
    /\ CancelDialogShown
    /\ confirmModal' = ClosedModal
    /\ UNCHANGED <<questionVars, joinVars, dashVars, gameVars>>

\* Mutant: the dialog's Save & Exit runs saveAndHost.
pressDialogSaveAndHost ==
    /\ CancelDialogShown
    /\ saveGame(TRUE, NoNav)

\* Save & Exit of the cancel dialog: onSave = saveAndExit, with no disabled test
pressDialogSave ==
    /\ CancelDialogShown
    /\ saveGame(FALSE, GoBack)

handleTagsChange(text) ==
    /\ MainScreenActive
    /\ tags' = text
    /\ UNCHANGED <<questionVars, joinVars, dashVars, confirmModal, gameTitle, isLoading,
                   isEditing, gameId, authUser, titleEditModal, load, saves,
                   saveCount, nav, games>>

\* A closed title modal's currentTitle is never read: the pencil, the only way
\* to open it, replaces it. Closed title modals are one value.
ClosedTitleModal == [isOpen |-> FALSE, currentTitle |-> <<>>]

TitleModalActive ==
    EditorShown /\ titleEditModal.isOpen /\ ~confirmModal.isOpen

\* The pencil next to the title
openTitleEdit ==
    /\ MainScreenActive
    /\ titleEditModal' = [isOpen |-> TRUE, currentTitle |-> gameTitle]
    /\ UNCHANGED <<questionVars, joinVars, dashVars, confirmModal, gameTitle, tags,
                   isLoading, isEditing, gameId, authUser, load, saves,
                   saveCount, nav, games>>

\* onChangeText of the title modal's field
typeTitle(t) ==
    /\ TitleModalActive
    /\ titleEditModal' = [titleEditModal EXCEPT !.currentTitle = t]
    /\ UNCHANGED <<questionVars, joinVars, dashVars, confirmModal, gameTitle, tags,
                   isLoading, isEditing, gameId, authUser, load, saves,
                   saveCount, nav, games>>

\* Save of the title modal: disabled={!titleEditModal.currentTitle.trim()}
saveTitle ==
    /\ TitleModalActive
    /\ Trim(titleEditModal.currentTitle) # <<>>
    /\ gameTitle' = Trim(titleEditModal.currentTitle)
    /\ titleEditModal' = ClosedTitleModal
    /\ UNCHANGED <<questionVars, joinVars, dashVars, confirmModal, tags, isLoading,
                   isEditing, gameId, authUser, load, saves, saveCount, nav,
                   games>>

\* Cancel of the title modal, and its onRequestClose
closeTitleEdit ==
    /\ TitleModalActive
    /\ titleEditModal' = ClosedTitleModal
    /\ UNCHANGED <<questionVars, joinVars, dashVars, confirmModal, gameTitle, tags,
                   isLoading, isEditing, gameId, authUser, load, saves,
                   saveCount, nav, games>>

\* loadGameData: the awaited getDoc resolves (ok) or rejects.
\* data.title || '', data.tags ? data.tags.join(', ') : '', data.questions || []
loadSettled(ok) ==
    /\ load = "pending"
    /\ load' = "done"
    /\ isLoading' = FALSE
    /\ IF ok /\ games[gameId].exists
        THEN /\ gameTitle' = games[gameId].title
             /\ tags' = JoinTags(games[gameId].tags)
             /\ questions' = games[gameId].questions
             /\ isEditing' = TRUE
        ELSE UNCHANGED <<gameTitle, tags, questions, isEditing>>
    /\ UNCHANGED <<isCreateQuestionModalVisible, editingQuestionIndex,
                   currentQuestion, joinVars, dashVars, confirmModal, gameId, authUser,
                   titleEditModal, saves, saveCount, nav, games>>

\* The ids of the documents of the collection.
GameIds == {"g1", "g2", "g3"} \cup NewIds

\* The state after the first render and its effects, for a route with
\* gameId id ("none": a new game) and an initial title.
EditorMounted(id, title) ==
    /\ questions = <<>>
    /\ isCreateQuestionModalVisible = FALSE
    /\ editingQuestionIndex = 0
    /\ currentQuestion = BlankQuestion
    /\ confirmModal = ClosedModal
    /\ gameTitle = title
    /\ tags = <<>>
    /\ gameId = id
    /\ isLoading = (id # "none")
    /\ load = IF id # "none" THEN "pending" ELSE "done"
    /\ isEditing = FALSE
    /\ titleEditModal = ClosedTitleModal
    /\ saves = {}
    /\ saveCount = 0
    /\ nav = [screen |-> "editor", gameId |-> "none"]

(***************************************************************************)
(* TeacherDashboard.js                                                     *)
(*                                                                         *)
(* A game of a list is a record: the fields of its document and its id.    *)
(* A field a document does not have is absent from the record, so that     *)
(* "isPublished || false" and the spread of a game into its copy work on   *)
(* whatever fields the document holds. userData, hoveredButton, the search *)
(* box and the title modal play no part in the operations below and are    *)
(* left out; the search box is empty and the library filter 'all', so that *)
(* every game of the current tab's list has its card on screen.            *)
(***************************************************************************)

\* { ...g, [f]: v }
With(g, f, v) == [k \in DOMAIN g \cup {f} |-> IF k = f THEN v ELSE g[k]]

\* delete g[f]
Without(g, f) == [k \in DOMAIN g \ {f} |-> g[k]]

\* The elements of a list.
Range(s) == {s[i] : i \in DOMAIN s}

\* g.isPublished read as a condition: an absent field is falsy.
Published(g) == "isPublished" \in DOMAIN g /\ g.isPublished

\* g.creatorId, "null" when the field is absent.
CreatorOf(g) == IF "creatorId" \in DOMAIN g THEN g.creatorId ELSE "null"

\* A query returns its documents in the order of their ids.
IdOrder == <<"g1", "g2", "g3", "n1", "n2", "n3">>

\* The ids addDoc gives the copies, in turn: an id is never given twice.
NewIdOrder == <<"n1", "n2", "n3">>

\* The collection 'users', which the dashboard only reads: the other
\* teacher's document has no name to show.
Users == [u1 |-> [exists |-> TRUE, username |-> "ann"],
          u2 |-> [exists |-> FALSE]]

\* { id: d.id, ...d.data() }
DocGame(id) == With(Without(games[id], "exists"), "id", id)

\* snapshot.docs.map(d => ({ id: d.id, ...d.data() })) for the documents
\* with the ids matched, in id order.
QueryGames(matched) ==
    LET found == SelectSeq(IdOrder, LAMBDA id : id \in matched)
    IN  [i \in DOMAIN found |-> DocGame(found[i])]

\* where('creatorId', '==', userToken), each game with isPublished || false
FetchedMy(token) ==
    LET docs == QueryGames({id \in GameIds : /\ games[id].exists
                                             /\ CreatorOf(games[id]) = token})
    IN  [i \in DOMAIN docs |-> With(docs[i], "isPublished", Published(docs[i]))]

\* where('isPublished', '==', true)
PublicRaw ==
    QueryGames({id \in GameIds : games[id].exists /\ Published(games[id])})

\* usersMap[g.creatorId] || 'Unknown': usersMap holds the names of the
\* creators whose user document exists, and nothing when the reads failed.
CreatorName(g, usersRead) ==
    IF usersRead /\ CreatorOf(g) \in DOMAIN Users /\ Users[CreatorOf(g)].exists
        THEN Users[CreatorOf(g)].username
        ELSE "Unknown"

\* publicRaw.map(g => ({ ...g, creatorName }))
AnnotatedPublic(raw, usersRead) ==
    [i \in DOMAIN raw |->
        With(raw[i], "creatorName", CreatorName(raw[i], usersRead))]

\* The dashboard is the mounted screen: a state setter of an unmounted
\* component changes nothing.
DashboardMounted == dashNav = "TeacherDashboard"

SetState(old, new) == IF DashboardMounted THEN new ELSE old

\* The confirmation modal closed. Its other fields are not read before the
\* next dialog replaces them.
ClosedDashModal ==
    [isOpen |-> FALSE, title |-> "", gameId |-> "none",
     currentPublished |-> FALSE, deletingIds |-> {}]

\* fetchData: AsyncStorage.getItem('userToken') resolves.
fetchToken ==
    /\ fetch.phase = "getItem"
    /\ IF userToken = "null"
        THEN /\ dashNav' = "Home"
             /\ fetch' = [fetch EXCEPT !.phase = "left"]
        ELSE /\ fetch' = [fetch EXCEPT !.phase = "userDoc", !.token = userToken]
             /\ UNCHANGED dashNav
    /\ UNCHANGED <<userToken, myGames, publicGames, currentTab,
                   dashConfirmModal, deletingIds, ops, opCount, issued,
                   joinVars, editorVars,
                   searchQuery, filter>>

\* fetchData: getDoc of the user's document resolves (ok) or rejects; a
\* rejected await ends fetchData, which catches nothing.
fetchUserDoc(ok) ==
    /\ fetch.phase = "userDoc"
    /\ fetch' = [fetch EXCEPT !.phase = IF ok THEN "myQuery" ELSE "failed"]
    /\ UNCHANGED <<userToken, myGames, publicGames, currentTab,
                   dashConfirmModal, deletingIds, ops, opCount, issued,
                   dashNav, joinVars, editorVars,
                   searchQuery, filter>>

\* fetchData: the query of the teacher's games resolves or rejects.
fetchMyGames(ok) ==
    /\ fetch.phase = "myQuery"
    /\ IF ok
        THEN /\ myGames' = SetState(myGames, FetchedMy(fetch.token))
             /\ fetch' = [fetch EXCEPT !.phase = "publicQuery", !.my = TRUE]
        ELSE /\ fetch' = [fetch EXCEPT !.phase = "failed"]
             /\ UNCHANGED myGames
    /\ UNCHANGED <<userToken, publicGames, currentTab, dashConfirmModal,
                   deletingIds, ops, opCount, issued, dashNav, joinVars,
                   editorVars,
                   searchQuery, filter>>

\* fetchData: the query of the public games resolves or rejects; with no
\* creator to look up, the list is set at once.
fetchPublicGames(ok) ==
    /\ fetch.phase = "publicQuery"
    /\ IF ~ok
        THEN /\ fetch' = [fetch EXCEPT !.phase = "failed"]
             /\ UNCHANGED publicGames
        ELSE IF {CreatorOf(g) : g \in Range(PublicRaw)} \ {"null"} = {}
        THEN /\ fetch' = [fetch EXCEPT !.phase = "done"]
             /\ publicGames' = SetState(publicGames,
                                        AnnotatedPublic(PublicRaw, FALSE))
        ELSE /\ fetch' = [fetch EXCEPT !.phase = "creators",
                                       !.publicRaw = PublicRaw]
             /\ UNCHANGED publicGames
    /\ UNCHANGED <<userToken, myGames, currentTab, dashConfirmModal,
                   deletingIds, ops, opCount, issued, dashNav, joinVars,
                   editorVars,
                   searchQuery, filter>>

\* fetchData: the reads of the creators' documents resolve, or one rejects
\* and the catch leaves usersMap empty; then setPublicGames.
fetchCreators(ok) ==
    /\ fetch.phase = "creators"
    /\ fetch' = [fetch EXCEPT !.phase = "done", !.publicRaw = <<>>]
    /\ publicGames' = SetState(publicGames,
                               AnnotatedPublic(fetch.publicRaw, ok))
    /\ UNCHANGED <<userToken, myGames, currentTab, dashConfirmModal,
                   deletingIds, ops, opCount, issued, dashNav, joinVars,
                   editorVars,
                   searchQuery, filter>>

\* The effect on route.params: a newGame passed to the screen is appended.
receiveNewGame(newGame) ==
    /\ DashboardMounted
    /\ myGames' = Append(myGames, newGame)
    /\ UNCHANGED <<userToken, fetch, publicGames, currentTab,
                   dashConfirmModal, deletingIds, ops, opCount, issued,
                   dashNav, joinVars, editorVars,
                   searchQuery, filter>>

\* const recentGames = myGames.slice(0, 8)
RecentLimit == 8
recentGames == SubSeq(myGames, 1, Min(RecentLimit, Len(myGames)))

\* The dashboard takes presses: it is mounted and no dialog covers it.
DashboardActive == DashboardMounted /\ ~dashConfirmModal.isOpen

\* The sidebar's Home / Your library / Discover
setCurrentTab(tab) ==
    /\ DashboardActive
    /\ currentTab' = tab
    /\ UNCHANGED <<userToken, fetch, myGames, publicGames, dashConfirmModal,
                   deletingIds, ops, opCount, issued, dashNav, joinVars,
                   editorVars,
                   searchQuery, filter>>

\* onChangeText of the search box, shown on the library and Discover tabs
setSearchQuery(text) ==
    /\ DashboardActive
    /\ currentTab # "home"
    /\ searchQuery' = text
    /\ UNCHANGED <<userToken, fetch, myGames, publicGames, currentTab,
                   dashConfirmModal, deletingIds, ops, opCount, issued,
                   dashNav, filter, joinVars, editorVars>>

\* All, Drafts and Published, shown on the library tab
setFilter(f) ==
    /\ DashboardActive
    /\ currentTab = "library"
    /\ filter' = f
    /\ UNCHANGED <<userToken, fetch, myGames, publicGames, currentTab,
                   dashConfirmModal, deletingIds, ops, opCount, issued,
                   dashNav, searchQuery, joinVars, editorVars>>

\* String.prototype.toLowerCase on the letters the titles, tags and queries
\* are written with.
LowerOf == [A |-> "a", B |-> "b", C |-> "c", N |-> "n", T |-> "t"]

\* Mutant: toLowerCase left out, so that the search is case-sensitive.
ToLowerCaseIdentity(s) == s

ToLowerCase(s) ==
    [i \in DOMAIN s |-> IF s[i] \in DOMAIN LowerOf THEN LowerOf[s[i]] ELSE s[i]]

\* String.prototype.includes
Includes(s, q) ==
    \E i \in 0..Len(s) :
        i + Len(q) <= Len(s) /\ SubSeq(s, i + 1, i + Len(q)) = q

\* g.title.toLowerCase().includes(q) ||
\* (g.tags && g.tags.some(t => t.toLowerCase().includes(q)))
SearchMatches(g, q) ==
    \/ Includes(ToLowerCase(g.title), q)
    \/ /\ "tags" \in DOMAIN g
       /\ \E i \in DOMAIN g.tags : Includes(ToLowerCase(g.tags[i]), q)

\* Mutant: the filter is applied on every tab.
FilterAppliesOnEveryTab(tab, f) == f # "all"

\* currentTab === 'library' && filter !== 'all'
FilterApplies(tab, f) == tab = "library" /\ f # "all"

\* filter === 'published' ? g.isPublished : !g.isPublished
FilterKeeps(g, f) == IF f = "published" THEN Published(g) ELSE ~Published(g)

getDisplayedGames ==
    LET source == IF currentTab = "library" THEN myGames ELSE publicGames
        q == ToLowerCase(searchQuery)
        list == IF searchQuery # <<>>
                  THEN SelectSeq(source, LAMBDA g : SearchMatches(g, q))
                  ELSE source
    IN  IF FilterApplies(currentTab, filter)
          THEN SelectSeq(list, LAMBDA g : FilterKeeps(g, filter))
          ELSE list

\* The cards on screen: the recent games on the Home tab, and
\* getDisplayedGames() on the library and Discover tabs.
Cards ==
    IF currentTab = "home" THEN recentGames ELSE getDisplayedGames

\* renderGameCard: const isMine = currentTab === 'library'
isMine == currentTab = "library"

\* ` (Copy)`
CopySuffix == <<" ", "(", "C", "o", "p", "y", ")">>

\* copyGame: { ...game, creatorId: userToken, isPublished: false,
\*             title: `${game.title} (Copy)` } without its id
NewGameData(game) ==
    Without(With(With(With(game, "creatorId", userToken),
                      "isPublished", FALSE),
                 "title", game.title \o CopySuffix),
            "id")

\* A call the dashboard awaits.
Op(kind, phase, id, value, data) ==
    [n |-> opCount + 1, kind |-> kind, phase |-> phase, id |-> id,
     value |-> value, data |-> data]

NoData == [none |-> TRUE]

\* Copy to Library on a card of the Home or the Discover tab: the token is
\* read and addDoc called.
copyGame(game) ==
    /\ DashboardActive
    /\ ~isMine
    /\ game \in Range(Cards)
    /\ ops' = ops \cup {Op("copy", "addDoc", "none", FALSE, NewGameData(game))}
    /\ opCount' = opCount + 1
    /\ UNCHANGED <<userToken, fetch, myGames, publicGames, currentTab,
                   dashConfirmModal, deletingIds, issued, dashNav, joinVars,
                   editorVars,
                   searchQuery, filter>>

\* copyGame: addDoc resolves with the new document's id, and the copy is
\* appended to the library; or it rejects, which is logged.
copySettled(op, ok) ==
    /\ op \in ops
    /\ op.kind = "copy"
    /\ ops' = ops \ {op}
    /\ IF ok
        THEN /\ issued < Len(NewIdOrder)
             /\ LET id == NewIdOrder[issued + 1]
                IN  /\ games' = [games EXCEPT ![id] = With(op.data, "exists", TRUE)]
                    /\ myGames' = SetState(myGames,
                                    Append(myGames, With(op.data, "id", id)))
             /\ issued' = issued + 1
        ELSE UNCHANGED <<games, myGames, issued>>
    /\ UNCHANGED <<userToken, fetch, publicGames, currentTab,
                   dashConfirmModal, deletingIds, opCount, dashNav, joinVars,
                   questionVars, confirmModal, gameTitle, tags, isLoading,
                   isEditing, gameId, authUser, titleEditModal, load, saves,
                   saveCount, nav,
                   searchQuery, filter>>

\* Mutant: Delete on a card starts the deletion at once, with no dialog.
deleteWithoutDialog(id) ==
    /\ DashboardActive
    /\ isMine
    /\ \E g \in Range(Cards) : g.id = id
    /\ deletingIds' = deletingIds \cup {id}
    /\ ops' = ops \cup {Op("delete", "getDoc", id, FALSE, NoData)}
    /\ opCount' = opCount + 1
    /\ UNCHANGED <<userToken, fetch, myGames, publicGames, currentTab,
                   dashConfirmModal, issued, dashNav, joinVars, editorVars,
                   searchQuery, filter>>

\* confirmDelete(gameId, gameTitle): Delete on a card of the library. The
\* dialog's onConfirm closes over the deletingIds of this render.
confirmDelete(id) ==
    /\ DashboardActive
    /\ isMine
    /\ \E g \in Range(Cards) : g.id = id
    /\ dashConfirmModal' =
         [isOpen |-> TRUE, title |-> "Delete Game?", gameId |-> id,
          currentPublished |-> FALSE, deletingIds |-> deletingIds]
    /\ UNCHANGED <<userToken, fetch, myGames, publicGames, currentTab,
                   deletingIds, ops, opCount, issued, dashNav, joinVars,
                   editorVars,
                   searchQuery, filter>>

\* confirmPublishToggle(gameId, gameTitle, currentPublished): Publish or
\* Unpublish on a card of the library.
confirmPublishToggle(id, currentPublished) ==
    /\ DashboardActive
    /\ isMine
    /\ \E g \in Range(Cards) : g.id = id /\ Published(g) = currentPublished
    /\ dashConfirmModal' =
         [isOpen |-> TRUE,
          title |-> IF currentPublished THEN "Unpublish Game?"
                                        ELSE "Publish Game?",
          gameId |-> id, currentPublished |-> currentPublished,
          deletingIds |-> {}]
    /\ UNCHANGED <<userToken, fetch, myGames, publicGames, currentTab,
                   deletingIds, ops, opCount, issued, dashNav, joinVars,
                   editorVars,
                   searchQuery, filter>>

\* onCancel of either dialog
cancelConfirm ==
    /\ DashboardMounted
    /\ dashConfirmModal.isOpen
    /\ dashConfirmModal' = ClosedDashModal
    /\ UNCHANGED <<userToken, fetch, myGames, publicGames, currentTab,
                   deletingIds, ops, opCount, issued, dashNav, joinVars,
                   editorVars,
                   searchQuery, filter>>

\* onConfirm of the delete dialog, up to its first await: nothing when the
\* deletingIds it closed over holds the game, else the game joins
\* deletingIds and getDoc is called.
onConfirmDelete ==
    /\ DashboardMounted
    /\ dashConfirmModal.isOpen
    /\ dashConfirmModal.title = "Delete Game?"
    /\ IF dashConfirmModal.gameId \in dashConfirmModal.deletingIds
        THEN UNCHANGED <<deletingIds, ops, opCount>>
        ELSE /\ deletingIds' = deletingIds \cup {dashConfirmModal.gameId}
             /\ ops' = ops \cup {Op("delete", "getDoc", dashConfirmModal.gameId,
                                    FALSE, NoData)}
             /\ opCount' = opCount + 1
    /\ UNCHANGED <<userToken, fetch, myGames, publicGames, currentTab,
                   dashConfirmModal, issued, dashNav, joinVars, editorVars,
                   searchQuery, filter>>

\* The finally of the delete: the game leaves deletingIds and the modal
\* closes.
DeleteFinally(id) ==
    /\ dashConfirmModal' = SetState(dashConfirmModal, ClosedDashModal)
    /\ deletingIds' = SetState(deletingIds, deletingIds \ {id})

\* onConfirm of the delete dialog: getDoc resolves, and deleteDoc is called
\* (no document this client writes has images to delete first); or getDoc
\* rejects, which is logged.
deleteRead(op, ok) ==
    /\ op \in ops
    /\ op.kind = "delete"
    /\ op.phase = "getDoc"
    /\ IF ok
        THEN /\ ops' = (ops \ {op}) \cup {[op EXCEPT !.phase = "deleteDoc"]}
             /\ UNCHANGED <<deletingIds, dashConfirmModal>>
        ELSE /\ ops' = ops \ {op}
             /\ DeleteFinally(op.id)
    /\ UNCHANGED <<userToken, fetch, myGames, publicGames, currentTab,
                   opCount, issued, dashNav, joinVars, editorVars,
                   searchQuery, filter>>

\* prev.filter(g => g.id !== gameId)
WithoutGame(list, id) == SelectSeq(list, LAMBDA g : g.id # id)

\* onConfirm of the delete dialog: deleteDoc resolves and the game leaves
\* the library, or it rejects, which is logged.
deleteSettled(op, ok) ==
    /\ op \in ops
    /\ op.kind = "delete"
    /\ op.phase = "deleteDoc"
    /\ ops' = ops \ {op}
    /\ IF ok
        THEN /\ games' = [games EXCEPT ![op.id] = NoDoc]
             /\ myGames' = SetState(myGames, WithoutGame(myGames, op.id))
        ELSE UNCHANGED <<games, myGames>>
    /\ DeleteFinally(op.id)
    /\ UNCHANGED <<userToken, fetch, publicGames, currentTab, opCount,
                   issued, dashNav, joinVars,
                   questionVars, confirmModal, gameTitle, tags, isLoading,
                   isEditing, gameId, authUser, titleEditModal, load, saves,
                   saveCount, nav,
                   searchQuery, filter>>

\* onConfirm of the publish dialog, up to its await: updateDoc is called.
onConfirmPublishToggle ==
    /\ DashboardMounted
    /\ dashConfirmModal.isOpen
    /\ dashConfirmModal.title \in {"Publish Game?", "Unpublish Game?"}
    /\ ops' = ops \cup {Op("publish", "updateDoc", dashConfirmModal.gameId,
                           ~dashConfirmModal.currentPublished, NoData)}
    /\ opCount' = opCount + 1
    /\ UNCHANGED <<userToken, fetch, myGames, publicGames, currentTab,
                   dashConfirmModal, deletingIds, issued, dashNav, joinVars,
                   editorVars,
                   searchQuery, filter>>

\* Mutant: the library is updated whether or not updateDoc succeeded.
ToggledAlways(list, id, value, done) ==
    [i \in DOMAIN list |-> IF list[i].id = id
                             THEN With(list[i], "isPublished", value)
                             ELSE list[i]]

\* The library after the publish dialog's try block:
\* prev.map(g => g.id === gameId ? { ...g, isPublished: !currentPublished } : g)
\* once updateDoc has resolved, and untouched when it rejected.
Toggled(list, id, value, done) ==
    IF done
        THEN [i \in DOMAIN list |-> IF list[i].id = id
                                       THEN With(list[i], "isPublished", value)
                                       ELSE list[i]]
        ELSE list

\* onConfirm of the publish dialog: updateDoc resolves or rejects (it
\* rejects when the document does not exist); the finally closes the modal.
publishSettled(op, ok) ==
    /\ op \in ops
    /\ op.kind = "publish"
    /\ ops' = ops \ {op}
    /\ LET done == ok /\ games[op.id].exists
       IN  /\ games' = IF done
                         THEN [games EXCEPT ![op.id] =
                                  With(@, "isPublished", op.value)]
                         ELSE games
           /\ myGames' = SetState(myGames,
                                  Toggled(myGames, op.id, op.value, done))
    /\ dashConfirmModal' = SetState(dashConfirmModal, ClosedDashModal)
    /\ UNCHANGED <<userToken, fetch, publicGames, currentTab, deletingIds,
                   opCount, issued, dashNav, joinVars,
                   questionVars, confirmModal, gameTitle, tags, isLoading,
                   isEditing, gameId, authUser, titleEditModal, load, saves,
                   saveCount, nav,
                   searchQuery, filter>>

\* handleLogout of the dashboard: Log out in the header opens the dialog.
handleLogoutDashboard ==
    /\ DashboardActive
    /\ dashConfirmModal' =
         [isOpen |-> TRUE, title |-> "Log out?", gameId |-> "none",
          currentPublished |-> FALSE, deletingIds |-> {}]
    /\ UNCHANGED <<userToken, fetch, myGames, publicGames, currentTab,
                   deletingIds, ops, opCount, issued, dashNav, joinVars,
                   editorVars,
                   searchQuery, filter>>

\* onConfirm of the logout dialog, up to its first await: signOut is called.
onConfirmLogout ==
    /\ DashboardMounted
    /\ dashConfirmModal.isOpen
    /\ dashConfirmModal.title = "Log out?"
    /\ ops' = ops \cup {Op("logout", "signOut", "none", FALSE, NoData)}
    /\ opCount' = opCount + 1
    /\ UNCHANGED <<userToken, fetch, myGames, publicGames, currentTab,
                   dashConfirmModal, deletingIds, issued, dashNav, joinVars,
                   editorVars,
                   searchQuery, filter>>

\* onConfirm of the logout dialog: signOut resolves and
\* AsyncStorage.removeItem is called, or it rejects, which ends onConfirm
\* with the dialog still open.
logoutSignedOut(op, ok) ==
    /\ op \in ops
    /\ op.kind = "logout"
    /\ op.phase = "signOut"
    /\ IF ok
        THEN /\ ops' = (ops \ {op}) \cup {[op EXCEPT !.phase = "removeItem"]}
             /\ authUser' = "null"
        ELSE /\ ops' = ops \ {op}
             /\ UNCHANGED authUser
    /\ UNCHANGED <<userToken, fetch, myGames, publicGames, currentTab,
                   dashConfirmModal, deletingIds, opCount, issued, dashNav,
                   joinVars, questionVars, confirmModal, gameTitle, tags,
                   isLoading, isEditing, gameId, titleEditModal, load, saves,
                   saveCount, nav, games,
                   searchQuery, filter>>

\* onConfirm of the logout dialog: removeItem resolves, and
\* navigation.reset leaves Home as the only screen; or it rejects.
logoutTokenRemoved(op, ok) ==
    /\ op \in ops
    /\ op.kind = "logout"
    /\ op.phase = "removeItem"
    /\ ops' = ops \ {op}
    /\ IF ok
        THEN /\ userToken' = "null"
             /\ dashNav' = "Home"
        ELSE UNCHANGED <<userToken, dashNav>>
    /\ UNCHANGED <<fetch, myGames, publicGames, currentTab, dashConfirmModal,
                   deletingIds, opCount, issued, joinVars, editorVars,
                   searchQuery, filter>>

\* The dashboard after its first render, with the stored token.
DashboardOpened(token) ==
    /\ userToken = token
    /\ fetch = [phase |-> "getItem", token |-> "null", my |-> FALSE,
                publicRaw |-> <<>>]
    /\ myGames = <<>>
    /\ publicGames = <<>>
    /\ currentTab = "home"
    /\ dashConfirmModal = ClosedDashModal
    /\ deletingIds = {}
    /\ ops = {}
    /\ opCount = 0
    /\ issued = 0
    /\ dashNav = "TeacherDashboard"
    /\ searchQuery = <<>>
    /\ filter = "all"

\* Nothing of the dashboard is on screen.
DashboardAbsent ==
    /\ userToken = "null"
    /\ fetch = [phase |-> "absent", token |-> "null", my |-> FALSE,
                publicRaw |-> <<>>]
    /\ myGames = <<>>
    /\ publicGames = <<>>
    /\ currentTab = "home"
    /\ dashConfirmModal = ClosedDashModal
    /\ deletingIds = {}
    /\ ops = {}
    /\ opCount = 0
    /\ issued = 0
    /\ dashNav = "none"
    /\ searchQuery = <<>>
    /\ filter = "all"

(***************************************************************************)
(* JoinGameScreenMobile.js                                                 *)
(***************************************************************************)

\* The characters the regular expression /[^0-9]/ keeps.
Digits == {"0", "1", "2", "3", "4", "5", "6", "7", "8", "9"}

IsDigit(c) == c \in Digits

\* .slice(0, 6) in handleInputChange
MaxCodeLen == 6

\* gameCode.length !== 6 in handleJoinGame
JoinCodeLen == 6

\* The characters of the texts tried together with the join actions.
KeyChars == {"1", "a"}

\* The longest text handed to handleInputChange (longer than the slice keeps).
MaxInputLen == 7

\* The digit tried at position i of a text: each position has its own, so that
\* a digit out of place shows.
DigitAt(i) == <<"1", "2", "3", "4", "5", "6", "7", "8", "9", "0">>[((i - 1) % 10) + 1]

\* Every text of up to MaxInputLen characters with, at each position, that
\* position's digit or the letter a.
InputTexts ==
    UNION { { [i \in 1..k |-> IF i \in ds THEN DigitAt(i) ELSE "a"] :
                ds \in SUBSET (1..k) } : k \in 0..MaxInputLen }

KeyTexts == UNION {[1..k -> KeyChars] : k \in 0..MaxInputLen}

\* text.replace(/[^0-9]/g, "")
StripNonDigits(text) == SelectSeq(text, IsDigit)

\* s.slice(0, n)
Slice0(s, n) == SubSeq(s, 1, Min(n, Len(s)))

\* Mutant: the slice is taken before the filter.
NumericTextSliceFirst(text) == StripNonDigits(Slice0(text, MaxCodeLen))

\* const numericText = text.replace(/[^0-9]/g, "").slice(0, 6)
NumericText(text) == Slice0(StripNonDigits(text), MaxCodeLen)

NoConsole == [level |-> "none", code |-> <<>>]
NoCall == [via |-> "none", code |-> <<>>]

handleInputChange(text) ==
    /\ gameCode' = NumericText(text)
    /\ lastInput' = text
    /\ UNCHANGED <<console, joinCall, authVars, editorVars, dashVars>>

\* Mutant: the length test accepts any non-empty code.
CodeRejectedWhenEmpty(code) == Len(code) = 0

\* if (gameCode.length !== 6) { console.warn(...); return; }
CodeRejected(code) == Len(code) # JoinCodeLen

\* disabled={gameCode.length !== 6}
JoinDisabled == Len(gameCode) # 6

handleJoinGame(via) ==
    /\ console' = IF CodeRejected(gameCode)
                    THEN [level |-> "warn", code |-> <<>>]
                    ELSE [level |-> "log", code |-> gameCode]
    /\ joinCall' = [via |-> via, code |-> gameCode]
    /\ UNCHANGED <<gameCode, lastInput, authVars, editorVars, dashVars>>

\* onPress={handleJoinGame} of the Join Game button
PressJoinGame == ~JoinDisabled /\ handleJoinGame("button")

\* onSubmitEditing={handleJoinGame} of the TextInput
SubmitEditing == handleJoinGame("submit")

\* setGoldBalance(1250): the mock balance of a signed-in user.
MockGold == 1250

\* Firebase's auth state changes to u (a sign-in on the Login screen, a
\* sign-out elsewhere): auth.currentUser is set and the listener's call is
\* queued.
authStateChanges(u) ==
    /\ u # authUser
    /\ authUser' = u
    /\ authEvents' = Append(authEvents, u)
    /\ UNCHANGED <<gameCode, lastInput, console, joinCall, user, goldBalance,
                   logouts, questionVars, confirmModal, gameTitle, tags,
                   isLoading, isEditing, gameId, titleEditModal, load, saves,
                   saveCount, nav, games, dashVars>>

\* Mutant: the listener leaves the gold alone when the user is null.
GoldForKeepsOnSignOut(currentUser) ==
    IF currentUser # "null" THEN MockGold ELSE goldBalance

\* The listener's if (currentUser) setGoldBalance(1250) else setGoldBalance(0)
GoldFor(currentUser) == IF currentUser # "null" THEN MockGold ELSE 0

\* The onAuthStateChanged listener runs with the next queued user.
authCallback ==
    /\ authEvents # <<>>
    /\ user' = Head(authEvents)
    /\ goldBalance' = GoldFor(Head(authEvents))
    /\ authEvents' = Tail(authEvents)
    /\ UNCHANGED <<gameCode, lastInput, console, joinCall, logouts,
                   editorVars, dashVars>>

\* {user ? (gold, Profile, Store, Log Out) : (Log In, Sign Up)}
LoggedInShown == user # "null"
AuthPromptsShown == ~(user # "null")

\* handleLogout, up to its await: Log Out calls auth.signOut().
handleLogout ==
    /\ LoggedInShown
    /\ logouts' = [logouts EXCEPT !.pending = @ + 1]
    /\ UNCHANGED <<gameCode, lastInput, console, joinCall, user, goldBalance,
                   authEvents, editorVars, dashVars>>

\* auth.signOut() resolves: nobody is signed in, and the listener's call is
\* queued when somebody was; or it rejects, which handleLogout logs.
signOutSettled(ok) ==
    /\ logouts.pending > 0
    /\ IF ok
        THEN /\ logouts' = [pending |-> logouts.pending - 1,
                            resolved |-> logouts.resolved + 1]
             /\ authUser' = "null"
             /\ authEvents' = IF authUser # "null"
                                THEN Append(authEvents, "null")
                                ELSE authEvents
        ELSE /\ logouts' = [logouts EXCEPT !.pending = @ - 1]
             /\ UNCHANGED <<authUser, authEvents>>
    /\ UNCHANGED <<gameCode, lastInput, console, joinCall, user, goldBalance,
                   questionVars, confirmModal, gameTitle, tags, isLoading,
                   isEditing, gameId, titleEditModal, load, saves, saveCount,
                   nav, games, dashVars>>

\* handleLogout after its await: setGoldBalance(0)
logoutContinues ==
    /\ logouts.resolved > 0
    /\ logouts' = [logouts EXCEPT !.resolved = @ - 1]
    /\ goldBalance' = 0
    /\ UNCHANGED <<gameCode, lastInput, console, joinCall, user, authEvents,
                   editorVars, dashVars>>

\* Nothing of the editor is on screen.
EditorAbsent ==
    /\ EditorMounted("none", <<>>)
    /\ authUser = "null"
    /\ games = [id \in GameIds |-> NoDoc]

JoinMounted ==
    /\ gameCode = <<>>
    /\ lastInput = <<>>
    /\ console = NoConsole
    /\ joinCall = NoCall
    /\ user = "null"
    /\ goldBalance = 0
    /\ authEvents = <<>>
    /\ logouts = [pending |-> 0, resolved |-> 0]

InitJoin == JoinMounted /\ EditorAbsent /\ DashboardAbsent

\* The code field alone, with every text of InputTexts.
NextInput == \E text \in InputTexts : handleInputChange(text)

SpecInput == InitJoin /\ [][NextInput]_vars

\* The code field and the join actions.
NextJoin ==
    \/ \E text \in KeyTexts : handleInputChange(text)
    \/ PressJoinGame
    \/ SubmitEditing

SpecJoin == InitJoin /\ [][NextJoin]_vars

(***************************************************************************)
(* The join screen's auth state: sign-ins, sign-outs and Log Out           *)
(***************************************************************************)

\* The users who sign in.
AuthUsers == {"u1", "u2"}

\* The most listener calls queued and the most Log Out presses awaited.
MaxAuthEvents == 3
MaxLogouts == 2

\* The screen mounts with somebody or nobody signed in; the listener is
\* first called with that user.
InitAuth ==
    /\ gameCode = <<>>
    /\ lastInput = <<>>
    /\ console = NoConsole
    /\ joinCall = NoCall
    /\ user = "null"
    /\ goldBalance = 0
    /\ logouts = [pending |-> 0, resolved |-> 0]
    /\ EditorMounted("none", <<>>)
    /\ games = [id \in GameIds |-> NoDoc]
    /\ DashboardAbsent
    /\ authUser \in AuthUsers \cup {"null"}
    /\ authEvents = <<authUser>>

NextAuth ==
    \/ \E u \in AuthUsers \cup {"null"} :
          (Len(authEvents) < MaxAuthEvents /\ authStateChanges(u))
    \/ authCallback
    \/ (logouts.pending + logouts.resolved < MaxLogouts /\ handleLogout)
    \/ \E ok \in BOOLEAN :
          ((ok => Len(authEvents) < MaxAuthEvents) /\ signOutSettled(ok))
    \/ logoutContinues

SpecAuth == InitAuth /\ [][NextAuth]_vars

(***************************************************************************)
(* The question editor alone                                               *)
(***************************************************************************)

\* The texts typed into the question field and into an answer field.
QuestionTexts == {<<>>, <<" ">>, <<"Q">>}
AnswerTexts == {<<>>, <<"A">>}

\* The answer fields typed into.
TypedRows == {1}

\* The longest question list of SpecQuestions.
MaxQuestions == 1

InitQuestions ==
    /\ JoinMounted
    /\ DashboardAbsent
    /\ EditorMounted("none", <<"N">>)
    /\ authUser = "u1"
    /\ games = [id \in GameIds |-> NoDoc]

NextQuestions ==
    \/ (Len(questions) < MaxQuestions /\ addQuestion)
    \/ \E type \in {"multipleChoice", "trueFalse"} : selectType(type)
    \/ \E t \in QuestionTexts : setQuestionText(t)
    \/ \E idx \in TypedRows, txt \in AnswerTexts : setAnswerText(idx, txt)
    \/ \E idx \in 1..4 : toggleChoice(idx)
    \/ \E idx \in 1..2 : toggleTrueFalse(idx)
    \/ saveQuestion
    \/ cancelQuestion
    \/ \E index \in 1..MaxQuestions : editQuestion(index)
    \/ \E index \in 1..MaxQuestions : deleteQuestion(index)
    \/ pressOk

SpecQuestions == InitQuestions /\ [][NextQuestions]_vars

(***************************************************************************)
(* The whole editor: a new game or a game to edit, with few question texts *)
(***************************************************************************)

\* A stored question.
StoredQuestion ==
    [type |-> "multipleChoice",
     question |-> <<"S">>,
     answers |-> <<<<"x">>, <<"y">>, <<>>, <<>>>>,
     correctAnswers |-> <<FALSE, TRUE, FALSE, FALSE>>]

\* The documents the game to edit may be when the editor opens.
StoredGames ==
    { [exists |-> TRUE, title |-> <<"S">>, tags |-> <<<<"a">>, <<"b">>>>,
       questions |-> <<StoredQuestion>>, numQuestions |-> 1,
       creatorId |-> "u1", isPublished |-> TRUE],
      [exists |-> TRUE, title |-> <<" ">>, tags |-> <<>>,
       questions |-> <<>>, numQuestions |-> 0,
       creatorId |-> "u1"] }

\* route.params.initialTitle of a new game ('' when none is passed).
InitialTitles == {<<>>, <<"N">>}

\* The texts typed into the title modal and into the tags field.
TitleTexts == {<<"T", " ">>}
TagTexts == {<<" ", "a", ",", ",", "b", " ">>}

\* The longest question list and the most saves started.
MaxListLen == 2
MaxSaves == 1

\* A new game with or without a title, signed in or (with a title) signed
\* out; or the game g1 to edit, stored or missing.
InitEditor ==
    /\ JoinMounted
    /\ DashboardAbsent
    /\ \/ /\ \E title \in InitialTitles : EditorMounted("none", title)
          /\ authUser = "u1"
          /\ games = [id \in GameIds |-> NoDoc]
       \/ /\ EditorMounted("none", <<"N">>)
          /\ authUser = "null"
          /\ games = [id \in GameIds |-> NoDoc]
       \/ /\ EditorMounted("g1", <<"S">>)
          /\ authUser = "u1"
          /\ \E doc \in StoredGames \cup {NoDoc} :
                games = [id \in GameIds |-> IF id = "g1" THEN doc ELSE NoDoc]

NextEditor ==
    \/ (Len(questions) < MaxListLen /\ addQuestion)
    \/ \E type \in {"multipleChoice", "trueFalse"} : selectType(type)
    \/ setQuestionText(<<"Q">>)
    \/ toggleChoice(1)
    \/ toggleTrueFalse(1)
    \/ saveQuestion
    \/ cancelQuestion
    \/ \E index \in 1..MaxListLen : editQuestion(index)
    \/ \E index \in 1..MaxListLen : deleteQuestion(index)
    \/ pressOk
    \/ requestClose
    \/ handleCancel
    \/ pressDiscard
    \/ pressResume
    \/ (saveCount < MaxSaves /\ pressDialogSave)
    \/ (saveCount < MaxSaves /\ saveAndExit)
    \/ (saveCount < MaxSaves /\ saveAndHost)
    \/ \E s \in saves, ok \in BOOLEAN : saveSettled(s, ok)
    \/ \E text \in TagTexts : handleTagsChange(text)
    \/ openTitleEdit
    \/ \E t \in TitleTexts : typeTitle(t)
    \/ saveTitle
    \/ closeTitleEdit
    \/ \E ok \in BOOLEAN : loadSettled(ok)

SpecEditor == InitEditor /\ [][NextEditor]_vars

(***************************************************************************)
(* The dashboard: the library of teacher u1 and another teacher's game     *)
(***************************************************************************)

\* The collection when the dashboard opens: a draft of u1 as the editor
\* writes it (no isPublished field), a published game of u1 and a published
\* game of u2.
StoredLibrary ==
    [id \in GameIds |->
        IF id = "g1" THEN [exists |-> TRUE, title |-> <<"A">>,
                           creatorId |-> "u1"]
        ELSE IF id = "g2" THEN [exists |-> TRUE, title |-> <<"B">>,
                                creatorId |-> "u1", isPublished |-> TRUE]
        ELSE IF id = "g3" THEN [exists |-> TRUE, title |-> <<"C">>,
                                creatorId |-> "u2", isPublished |-> TRUE]
        ELSE NoDoc]

\* The games route.params.newGame may be: a game of u1 the collection does
\* not hold yet, and a game of u2.
NewGames ==
    { [id |-> "n3", title |-> <<"N">>, creatorId |-> "u1"],
      [id |-> "g3", title |-> <<"C">>, creatorId |-> "u2",
       isPublished |-> TRUE] }

\* The most calls started and the longest library a newGame is added to.
MaxOps == 2
MaxLibrary == 3

InitDashboard ==
    /\ JoinMounted
    /\ EditorMounted("none", <<>>)
    /\ authUser = "u1"
    /\ games = StoredLibrary
    /\ \E token \in {"u1", "null"} : DashboardOpened(token)

\* The operations of the library: the fetch, the tabs, copy, delete and the
\* publish toggle.
NextLibrary ==
    \/ fetchToken
    \/ \E ok \in BOOLEAN : fetchUserDoc(ok)
    \/ \E ok \in BOOLEAN : fetchMyGames(ok)
    \/ \E ok \in BOOLEAN : fetchPublicGames(ok)
    \/ \E ok \in BOOLEAN : fetchCreators(ok)
    \/ \E tab \in {"home", "library", "discover"} : setCurrentTab(tab)
    \/ \E game \in Range(Cards) : (opCount < MaxOps /\ copyGame(game))
    \/ \E op \in ops, ok \in BOOLEAN : copySettled(op, ok)
    \/ \E id \in GameIds : confirmDelete(id)
    \/ \E id \in GameIds, cur \in BOOLEAN : confirmPublishToggle(id, cur)
    \/ cancelConfirm
    \/ (opCount < MaxOps /\ onConfirmDelete)
    \/ \E op \in ops, ok \in BOOLEAN : deleteRead(op, ok)
    \/ \E op \in ops, ok \in BOOLEAN : deleteSettled(op, ok)
    \/ (opCount < MaxOps /\ onConfirmPublishToggle)
    \/ \E op \in ops, ok \in BOOLEAN : publishSettled(op, ok)

SpecLibrary == InitDashboard /\ [][NextLibrary]_vars

\* The library's operations and the newGame parameter.
NextDashboard ==
    \/ NextLibrary
    \/ \E newGame \in NewGames :
          (Len(myGames) < MaxLibrary /\ receiveNewGame(newGame))

SpecDashboard == InitDashboard /\ [][NextDashboard]_vars

(***************************************************************************)
(* The dashboard with its three confirmation dialogs                       *)
(***************************************************************************)

\* The operations of the library, with the logout: every handler that opens
\* the confirmation dialog, and every call the dialog's buttons make.
NextConfirm ==
    \/ NextLibrary
    \/ handleLogoutDashboard
    \/ (opCount < MaxOps /\ onConfirmLogout)
    \/ \E op \in ops, ok \in BOOLEAN : logoutSignedOut(op, ok)
    \/ \E op \in ops, ok \in BOOLEAN : logoutTokenRemoved(op, ok)

SpecConfirm == InitDashboard /\ [][NextConfirm]_vars

(***************************************************************************)
(* The dashboard's Home tab: a library that grows past the recent games    *)
(***************************************************************************)

\* The longest library a game is added to: one game more than the Home tab
\* lists.
MaxRecentLibrary == 9

\* The fetch, the tabs, and the two ways a game is added to the library.
NextRecent ==
    \/ fetchToken
    \/ \E ok \in BOOLEAN : fetchUserDoc(ok)
    \/ \E ok \in BOOLEAN : fetchMyGames(ok)
    \/ \E ok \in BOOLEAN : fetchPublicGames(ok)
    \/ \E ok \in BOOLEAN : fetchCreators(ok)
    \/ \E tab \in {"home", "discover"} : setCurrentTab(tab)
    \/ \E game \in Range(Cards) :
          (opCount < MaxOps /\ Len(myGames) + Cardinality(ops) < MaxRecentLibrary
             /\ copyGame(game))
    \/ \E op \in ops, ok \in BOOLEAN : copySettled(op, ok)
    \/ \E newGame \in NewGames :
          (Len(myGames) + Cardinality(ops) < MaxRecentLibrary
             /\ receiveNewGame(newGame))

SpecRecent == InitDashboard /\ [][NextRecent]_vars

(***************************************************************************)
(* The dashboard's search box and library filter                           *)
(***************************************************************************)

\* The collection when the dashboard opens: titles and tags in both cases;
\* a draft of u1 without tags, a published game of u1 with a tag, and a
\* published game of u2 with an empty tag list.
SearchableLibrary ==
    [id \in GameIds |->
        IF id = "g1" THEN [exists |-> TRUE, title |-> <<"A", "b">>,
                           creatorId |-> "u1"]
        ELSE IF id = "g2" THEN [exists |-> TRUE, title |-> <<"b">>,
                                tags |-> << <<"B", "a">> >>,
                                creatorId |-> "u1", isPublished |-> TRUE]
        ELSE IF id = "g3" THEN [exists |-> TRUE, title |-> <<"a", "A">>,
                                tags |-> <<>>,
                                creatorId |-> "u2", isPublished |-> TRUE]
        ELSE NoDoc]

\* The texts typed into the search box.
MaxQueryLen == 2
QueryTexts == UNION {[1..k -> {"a", "B"}] : k \in 0..MaxQueryLen}

Filters == {"all", "drafts", "published"}

InitSearch ==
    /\ JoinMounted
    /\ EditorMounted("none", <<>>)
    /\ authUser = "u1"
    /\ games = SearchableLibrary
    /\ \E token \in {"u1", "null"} : DashboardOpened(token)

\* The fetch, the newGame parameter, the tabs, the search box and the filter.
NextSearch ==
    \/ fetchToken
    \/ \E ok \in BOOLEAN : fetchUserDoc(ok)
    \/ \E ok \in BOOLEAN : fetchMyGames(ok)
    \/ \E ok \in BOOLEAN : fetchPublicGames(ok)
    \/ \E ok \in BOOLEAN : fetchCreators(ok)
    \/ \E newGame \in NewGames :
          (Len(myGames) < MaxLibrary /\ receiveNewGame(newGame))
    \/ \E tab \in {"home", "library", "discover"} : setCurrentTab(tab)
    \/ \E text \in QueryTexts : setSearchQuery(text)
    \/ \E f \in Filters : setFilter(f)

SpecSearch == InitSearch /\ [][NextSearch]_vars

(***************************************************************************)
(* Properties of the question editor                                       *)
(***************************************************************************)

\* C1: starting from an empty question list, after any sequence of
\* question-editor operations every 'trueFalse' question of the list has
\* exactly the two fixed answers 'True' and 'False' and exactly one of them
\* marked correct.
C1_TrueFalseHasOneCorrect ==
    \A i \in 1..Len(questions) :
        questions[i].type = "trueFalse" =>
            /\ questions[i].answers = <<TrueText, FalseText>>
            /\ Len(questions[i].correctAnswers) = 2
            /\ CorrectCount(questions[i]) = 1

\* A true/false question with 'False' marked correct was saved.
C1_Witness ==
    \E i \in 1..Len(questions) :
        /\ questions[i].type = "trueFalse"
        /\ questions[i].correctAnswers = <<FALSE, TRUE>>

\* saveQuestion takes the question of the modal into the list and raises no alert.
SaveAccepts ==
    /\ saveQuestion
    /\ ~confirmModal'.isOpen
    /\ ~isCreateQuestionModalVisible'
    /\ \E i \in 1..Len(questions') : questions'[i] = currentQuestion

\* The question in the modal is multiple-choice with a non-blank text.
ChoiceDraft ==
    /\ currentQuestion.type = "multipleChoice"
    /\ Trim(currentQuestion.question) # <<>>

BlankTitleOrNoQuestions == Trim(gameTitle) = <<>> \/ questions = <<>>

\* C6: saveGame writes nothing to the games collection and triggers no
\* navigation when the title is blank after trimming or the question list is
\* empty, whichever button invoked it; it shows an alert instead. No step
\* taken from such a state starts an addDoc or updateDoc; every call in
\* flight carries a non-blank title and at least one question, and only a
\* call in flight changes the collection; the step that raises 'Missing
\* Title' or 'No Questions' is taken from such a state, leaves the calls in
\* flight, the collection and the screen as they are, and its OK navigates
\* nowhere.
C6_InvalidSaveWritesNothing ==
    [][ /\ (BlankTitleOrNoQuestions => saves' \subseteq saves)
        /\ \A s \in saves' :
              Trim(s.data.title) # <<>> /\ Len(s.data.questions) > 0
        /\ (games' # games => saves' # saves /\ saves' \subseteq saves)
        /\ (/\ confirmModal' # confirmModal
            /\ confirmModal'.title \in {"Missing Title", "No Questions"}
            => /\ BlankTitleOrNoQuestions
               /\ confirmModal'.isOpen
               /\ ~confirmModal'.showSaveOption
               /\ confirmModal'.onOk = NoNav
               /\ saves' = saves
               /\ games' = games
               /\ nav' = nav)
      ]_vars

\* A titled game without questions was answered with 'No Questions'.
C6_Witness ==
    /\ confirmModal.isOpen
    /\ confirmModal.title = "No Questions"
    /\ Trim(gameTitle) # <<>>
    /\ saveCount = 0
    /\ nav.screen = "editor"

\* The tags of a document are trimmed, non-empty and hold no comma.
CleanTags(list) ==
    \A i \in 1..Len(list) :
        /\ list[i] # <<>>
        /\ ~IsSpace(list[i][1])
        /\ ~IsSpace(list[i][Len(list[i])])
        /\ \A k \in 1..Len(list[i]) : list[i][k] # ","

\* C7: every game document written by saveGame holds the title, the tag list
\* parsed from the tags field and the questions in exactly the order of the
\* editor's question list at the time of saving, with numQuestions the
\* length of that list: the call saveGame starts carries them, and the
\* document a settled call leaves in the collection holds what it carried.
C7_DocumentIsTheEditorsGame ==
    [][ /\ \A s \in saves' \ saves :
              /\ s.data.title = gameTitle
              /\ s.data.tags = parseTags(tags)
              /\ CleanTags(s.data.tags)
              /\ s.data.questions = questions
              /\ s.data.numQuestions = Len(questions)
        /\ \A id \in GameIds :
              games'[id] # games[id] =>
                  \E s \in saves \ saves' :
                      /\ games'[id].exists
                      /\ games'[id].title = s.data.title
                      /\ games'[id].tags = s.data.tags
                      /\ games'[id].questions = s.data.questions
                      /\ games'[id].numQuestions = Len(s.data.questions)
      ]_vars

\* A new document holds two different questions and the two tags typed as
\* " a,,b ".
C7_Witness ==
    \E id \in NewIds :
        /\ games[id].exists
        /\ games[id].numQuestions = 2
        /\ games[id].questions[1] # games[id].questions[2]
        /\ games[id].tags = <<<<"a">>, <<"b">>>>

\* C8 as stated: the editor offers an operation that changes the relative
\* order of two questions of the list, so with two different questions in
\* the list and the main screen in reach, a step that swaps them is possible.
C8_ReorderOffered ==
    (MainScreenActive /\ Len(questions) = 2 /\ questions[1] # questions[2])
        => ENABLED (NextEditor /\ questions' = <<questions[2], questions[1]>>)

\* C8, amended: the editor's question list offers add, edit and delete and
\* no reorder: a step of the editor leaves the list as it is, appends one
\* question, replaces the question at one index with the others in place,
\* or removes the question at one index with the others in order (or, the
\* list being empty, loads the stored list).
C8_AddEditDeleteOnly ==
    [][ \/ questions' = questions
        \/ questions = <<>>
        \/ /\ Len(questions') = Len(questions) + 1
           /\ SubSeq(questions', 1, Len(questions)) = questions
        \/ \E i \in 1..Len(questions) :
              /\ Len(questions') = Len(questions)
              /\ \A j \in 1..Len(questions) :
                    j # i => questions'[j] = questions[j]
        \/ \E i \in 1..Len(questions) :
              /\ Len(questions') = Len(questions) - 1
              /\ \A j \in 1..Len(questions') :
                    questions'[j] = IF j < i THEN questions[j]
                                             ELSE questions[j + 1]
      ]_vars

\* The first of two different questions was edited and saved.
C8_Witness ==
    /\ Len(questions) = 2
    /\ questions[1] # questions[2]
    /\ editingQuestionIndex = 1
    /\ ~isCreateQuestionModalVisible

(***************************************************************************)
(* Properties of the join screen                                           *)
(***************************************************************************)

\* The number of digits among the first i characters of s.
DigitsUpTo(s, i) == Cardinality({j \in 1..i : IsDigit(s[j])})

\* C9: after any sequence of handleInputChange calls, gameCode holds only the
\* digits 0-9, has at most 6 characters, and is the first six digits of the
\* last input: as long as the input's digit count allows (at most 6), and its
\* k-th character is the k-th digit of the input.
C9_GameCodeIsFirstSixDigits ==
    /\ \A k \in 1..Len(gameCode) : gameCode[k] \in Digits
    /\ Len(gameCode) <= 6
    /\ Len(gameCode) = Min(6, DigitsUpTo(lastInput, Len(lastInput)))
    /\ \A k \in 1..Len(gameCode) :
          \E i \in 1..Len(lastInput) :
              /\ IsDigit(lastInput[i])
              /\ DigitsUpTo(lastInput, i) = k
              /\ gameCode[k] = lastInput[i]

\* A seven-character input with a non-digit in front of six digits was filtered.
C9_Witness ==
    /\ Len(lastInput) = 7
    /\ ~IsDigit(lastInput[1])
    /\ gameCode = <<"2", "3", "4", "5", "6", "7">>

\* C10: handleJoinGame joins (logs the code) only when gameCode has exactly 6
\* digits; with any other length it warns and joins nothing; the Join Game
\* button is disabled exactly when the length is not 6, so a press of the
\* button always joins.
C10_JoinOnlyWithSixDigits ==
    /\ (console.level = "log" => Len(console.code) = 6)
    /\ (joinCall.via # "none" /\ Len(joinCall.code) = 6
            => console = [level |-> "log", code |-> joinCall.code])
    /\ (joinCall.via # "none" /\ Len(joinCall.code) # 6
            => console = [level |-> "warn", code |-> <<>>])
    /\ (joinCall.via = "button" => console.level = "log")
    /\ (JoinDisabled <=> Len(gameCode) # 6)

\* handleJoinGame ran from the keyboard with five digits and warned.
C10_Witness ==
    /\ joinCall.via = "submit"
    /\ Len(joinCall.code) = 5
    /\ console.level = "warn"

(***************************************************************************)
(* Properties of the dashboard                                             *)
(***************************************************************************)

StoredPublicIds == {id \in GameIds : games[id].exists /\ Published(games[id])}

\* C4: once the fetch and every confirmed publish, unpublish, delete and
\* copy have completed, the Discover list publicGames holds exactly the
\* stored games whose isPublished is true. Stated as the claim states it.
C4_DiscoverIsThePublishedGames ==
    (DashboardMounted /\ fetch.phase = "done" /\ ops = {}) =>
        {g.id : g \in Range(publicGames)} = StoredPublicIds

\* The id and isPublished flag of every game of the library, and of every
\* stored game of the teacher.
LibraryFlags == {<<g.id, Published(g)>> : g \in Range(myGames)}
StoredFlags ==
    {<<id, Published(games[id])>> :
        id \in {i \in GameIds : games[i].exists
                                  /\ CreatorOf(games[i]) = userToken}}

\* C5: once the library is fetched and every confirmed delete, confirmed
\* publish toggle and copy has completed, with success or with failure, the
\* ids and isPublished flags of myGames are those of the teacher's stored
\* games, each game listed once.
C5_LibraryMirrorsStore ==
    (DashboardMounted /\ fetch.my /\ ops = {}) =>
        /\ LibraryFlags = StoredFlags
        /\ Cardinality(LibraryFlags) = Len(myGames)

\* The draft g1 was deleted and the published game g2 unpublished, in the
\* store and in the library, and nothing is awaited.
C5_Witness ==
    /\ DashboardMounted /\ fetch.my /\ ops = {}
    /\ ~games["g1"].exists
    /\ games["g2"].exists /\ ~Published(games["g2"])
    /\ \A g \in Range(myGames) : g.id = "g2" /\ ~g.isPublished
    /\ Len(myGames) = 1

(***************************************************************************)
(* Properties of the join screen's auth state                              *)
(***************************************************************************)

\* C11: on the join screen, whatever the interleaving of the auth listener's
\* calls and handleLogout, goldBalance is 0 whenever user is null; the
\* signed-in block (gold, Profile, Store, Log Out) is shown exactly when
\* user is not null and the Log In / Sign Up buttons exactly when it is.
C11_NoGoldWithoutUser ==
    /\ user = "null" => goldBalance = 0
    /\ LoggedInShown <=> user # "null"
    /\ AuthPromptsShown <=> user = "null"
    /\ LoggedInShown # AuthPromptsShown

\* The listener has run for a sign-out (nobody is shown signed in, no gold)
\* while a Log Out's signOut has resolved and its setGoldBalance(0) is still
\* to come, and somebody has signed in again since.
C11_Witness ==
    /\ user = "null"
    /\ goldBalance = 0
    /\ logouts.resolved > 0
    /\ authUser # "null"
    /\ authEvents # <<>>

(***************************************************************************)
(* Properties of saving and leaving the editor                             *)
(***************************************************************************)

\* In this step the awaited write of save s succeeded and left the saved
\* game under id: updateDoc on the stored document s.id, or addDoc under an
\* id that held no document.
WriteSucceeded(s, id) ==
    /\ s \in saves
    /\ s \notin saves'
    /\ games'[id].exists
    /\ games'[id].title = s.data.title
    /\ games'[id].questions = s.data.questions
    /\ IF s.op = "updateDoc" THEN id = s.id /\ games[id].exists
                             ELSE ~games[id].exists

\* C12: Save & Exit returns to the dashboard and Save & Host goes to the
\* host screen with the saved game's id, only after the write succeeded and
\* OK was pressed on the success alert; a failed write shows 'Save Failed'
\* and navigates nowhere. Every step that leaves the editor is Discard
\* Changes of the cancel dialog or OK on a 'Success' alert, which goes where
\* the alert says; a 'Success' alert is raised only by a step in which a
\* write succeeded, for the dashboard after Save & Exit and for the host
\* screen with the written document's id after Save & Host; the step that
\* ends a write without effect raises 'Save Failed' on the editor while it
\* is mounted, and no 'Save Failed' alert navigates.
C12_NavigationAfterSuccessAndOk ==
    [][ /\ (nav' # nav =>
              \/ CancelDialogShown /\ nav' = Navigate(GoBack)
              \/ /\ EditorShown
                 /\ confirmModal.isOpen
                 /\ ~confirmModal.showSaveOption
                 /\ confirmModal.title = "Success"
                 /\ ~confirmModal'.isOpen
                 /\ \/ /\ confirmModal.onOk = GoBack
                       /\ nav'.screen = "dashboard"
                    \/ /\ confirmModal.onOk.kind = "host"
                       /\ nav' = [screen |-> "host",
                                  gameId |-> confirmModal.onOk.id]
                       /\ games[nav'.gameId].exists)
        /\ (/\ confirmModal' # confirmModal
            /\ confirmModal'.title = "Success"
            => /\ confirmModal'.isOpen
               /\ ~confirmModal'.showSaveOption
               /\ nav' = nav
               /\ \E s \in saves, id \in GameIds :
                     /\ WriteSucceeded(s, id)
                     /\ confirmModal'.onOk =
                          IF s.shouldHost THEN HostGame(id) ELSE GoBack)
        /\ \A s \in saves \ saves' :
              /\ nav' = nav
              /\ (games' = games /\ ~(s.op = "updateDoc" /\ games[s.id].exists)
                    /\ EditorMountedNow
                  => confirmModal'.isOpen /\ confirmModal'.title = "Save Failed")
        /\ (confirmModal'.title = "Save Failed"
            => confirmModal'.onOk = NoNav /\ ~confirmModal'.showSaveOption)
      ]_vars

\* Save & Host of a new game: the host screen is shown for the document the
\* save added.
C12_Witness ==
    /\ nav.screen = "host"
    /\ nav.gameId \in NewIds
    /\ games[nav.gameId].exists
    /\ saves = {}

\* C13: when the editor was opened with a gameId route parameter, a
\* successful save updates the document with that id and adds no document
\* to the collection, whatever the outcome of the initial load. Stated as
\* the claim states it: in edit mode a step changes no document but the one
\* under gameId, and a write that succeeds is the update of that document.
C13_EditModeUpdatesItsDocument ==
    [][ gameId # "none" =>
          /\ \A id \in GameIds \ {gameId} : games'[id] = games[id]
          /\ \A s \in saves, id \in GameIds :
                WriteSucceeded(s, id) => s.op = "updateDoc" /\ id = gameId
      ]_vars

\* C14: the Home tab's 'Your Recent Games' holds at most 8 games, the most
\* recently added ones: the game last added to the library by copyGame or
\* by route.params.newGame is among them, also when the library holds 8
\* games or more. Stated as the claim states it; the game last added is the
\* last of myGames.
C14_RecentGamesAreTheLatest ==
    (DashboardMounted /\ fetch.my /\ myGames # <<>>) =>
        /\ Len(recentGames) <= RecentLimit
        /\ myGames[Len(myGames)] \in Range(recentGames)

\* C15: in the cancel dialog, Discard Changes closes the dialog and goes
\* back without a write, Resume Editing closes the dialog and leaves the
\* title, the tags and the question list as they are without navigating,
\* and Save & Exit runs the save of the Save & Exit button. Of a step taken
\* with the cancel dialog on screen: one that navigates closes the dialog,
\* goes back, and neither calls nor changes the store; one that closes the
\* dialog without navigating changes no title, tags, question, call or
\* document; one that starts a call or raises an alert with no call ended
\* is saveGame(false, () => navigation.goBack()), the call of saveAndExit.
C15_CancelDialogButtons ==
    [][ CancelDialogShown =>
          /\ (nav' # nav =>
                /\ ~confirmModal'.isOpen
                /\ nav' = Navigate(GoBack)
                /\ saves' = saves
                /\ games' = games)
          /\ (~confirmModal'.isOpen /\ nav' = nav =>
                /\ gameTitle' = gameTitle
                /\ tags' = tags
                /\ questions' = questions
                /\ saves' = saves
                /\ games' = games)
          /\ (\/ saves' \ saves # {}
              \/ /\ confirmModal'.isOpen
                 /\ confirmModal' # confirmModal
                 /\ saves' = saves
              => saveGame(FALSE, GoBack))
      ]_vars

\* Discard Changes was pressed on an editor with a question and nothing
\* saved: the dashboard is back and the store holds no new document.
C15_Witness ==
    /\ nav.screen = "dashboard"
    /\ ~confirmModal.isOpen
    /\ Len(questions) > 0
    /\ saveCount = 0
    /\ \A id \in NewIds : ~games[id].exists

\* The deletions of game id in progress: the getDoc / deleteDoc sequences
\* started and not finished.
DeletionsInProgress(id) == {op \in ops : op.kind = "delete" /\ op.id = id}

\* C16: at most one deletion of a given game is in progress at any time:
\* pressing Delete in the confirmation dialog again while the game's
\* deletion is in progress starts no second getDoc / deleteDoc sequence.
\* Stated as the claim states it.
C16_OneDeletionPerGame ==
    \A id \in GameIds : Cardinality(DeletionsInProgress(id)) <= 1

\* The calls started by this step.
StartedOps == {op \in ops' : \A o \in ops : o.n # op.n}

\* The dialog whose confirm button starts a call of this kind for this game.
DialogFor(op) ==
    /\ dashConfirmModal.isOpen
    /\ dashConfirmModal.gameId = op.id
    /\ dashConfirmModal.title \in
         (CASE op.kind = "delete" -> {"Delete Game?"}
            [] op.kind = "publish" -> {"Publish Game?", "Unpublish Game?"}
            [] op.kind = "logout" -> {"Log out?"}
            [] OTHER -> {})

\* C17: no destructive dashboard action takes effect without confirmation.
\* A delete, a publish toggle or a sign-out starts only in a step taken with
\* its own dialog open (the press of its confirm button); a stored game is
\* deleted or has its isPublished changed, and the user is signed out or the
\* stored token removed, only by a call started that way; and Cancel closes
\* the dialog leaving the store, myGames and the stored token unchanged.
C17_DestructiveOnlyAfterConfirm ==
    [][ /\ \A op \in StartedOps :
              op.kind \in {"delete", "publish", "logout"} =>
                 /\ DialogFor(op)
                 /\ op.phase \in {"getDoc", "updateDoc", "signOut"}
        /\ \A id \in GameIds :
              (/\ games[id].exists
               /\ \/ ~games'[id].exists
                  \/ Published(games'[id]) # Published(games[id]))
                => \E op \in ops : op.id = id /\ op.kind \in {"delete", "publish"}
        /\ (authUser' # authUser \/ userToken' # userToken)
              => \E op \in ops : op.kind = "logout"
        /\ (dashConfirmModal.isOpen /\ ~dashConfirmModal'.isOpen /\ ops' = ops)
              => /\ games' = games
                 /\ myGames' = myGames
                 /\ userToken' = userToken
      ]_vars

\* A confirmed deletion and a confirmed logout have both taken effect.
C17_Witness ==
    /\ fetch.token = "u1"
    /\ userToken = "null"
    /\ authUser = "null"
    /\ ~games["g1"].exists
    /\ dashNav = "Home"

\* The same letter in either case.
SameLetter(c, d) ==
    \/ c = d
    \/ \E pair \in {<<"a", "A">>, <<"b", "B">>, <<"c", "C">>, <<"n", "N">>,
                    <<"t", "T">>} : {c, d} = {pair[1], pair[2]}

\* Text s contains text q, letters compared without regard to case.
ContainsIgnoringCase(s, q) ==
    \E k \in 0..Len(s) :
        /\ k + Len(q) <= Len(s)
        /\ \A j \in 1..Len(q) : SameLetter(s[k + j], q[j])

TagsOf(g) == IF "tags" \in DOMAIN g THEN Range(g.tags) ELSE {}

\* The game is to be displayed: it matches the search query and, on the
\* library tab, the filter.
Wanted(g) ==
    /\ \/ searchQuery = <<>>
       \/ ContainsIgnoringCase(g.title, searchQuery)
       \/ \E t \in TagsOf(g) : ContainsIgnoringCase(t, searchQuery)
    /\ currentTab = "library" =>
          CASE filter = "published" -> Published(g)
            [] filter = "drafts" -> ~Published(g)
            [] filter = "all" -> TRUE

SourceList == IF currentTab = "library" THEN myGames ELSE publicGames

WantedAt == {k \in DOMAIN SourceList : Wanted(SourceList[k])}

\* C18: getDisplayedGames returns, in source order, exactly the games of
\* the current tab's source list (myGames on the library tab, publicGames
\* otherwise) whose title or one of whose tags contains the search query
\* case-insensitively (every game when the query is empty) and that, on the
\* library tab only, match the filter: published games for 'published',
\* games that are not published for 'drafts', every game for 'all'.
C18_DisplayedGames ==
    /\ Len(getDisplayedGames) = Cardinality(WantedAt)
    /\ \A k \in WantedAt :
          getDisplayedGames[Cardinality({j \in WantedAt : j <= k})]
            = SourceList[k]

\* On the library tab a query written in the other case and the drafts
\* filter keep one game of several.
C18_Witness ==
    /\ currentTab = "library"
    /\ filter = "drafts"
    /\ searchQuery = <<"a", "B">>
    /\ Len(myGames) >= 2
    /\ Len(getDisplayedGames) = 1

\* On the Discover tab the drafts filter hides no published game.
C18_DiscoverReached ==
    /\ currentTab = "discover"
    /\ filter = "drafts"
    /\ searchQuery = <<"B">>
    /\ Len(publicGames) >= 2
    /\ Len(getDisplayedGames) = 1
    /\ Published(getDisplayedGames[1])

====
